---- MODULE Spec2Model ----
(***************************************************************************)
(* Notes backend: the in-memory NoteRepository (repository.py), the        *)
(* pydantic models (models.py) and the FastAPI handlers (main.py).         *)
(*                                                                         *)
(* The handlers are plain `def` functions, so the server runs each request *)
(* on a worker thread; the threads share the one note_repository.  A       *)
(* thread's position is the line of the handler / repository method it is  *)
(* about to execute.  Single dict operations (get, __setitem__, pop,       *)
(* values) are atomic; a thread may be pre-empted between them.            *)
(*                                                                         *)
(* Text is a sequence of characters, Optional[X] is the set holding at     *)
(* most one X (None is the empty set), the dict is the sequence of its     *)
(* entries in insertion order, datetime.utcnow() reads a clock that never  *)
(* runs backwards but may return the same reading twice.                   *)
(***************************************************************************)
EXTENDS Integers, Sequences, FiniteSets, TLC

\* ---------------------------------------------------------------- bounds
MaxIds == 2          \* uuid4 values the generator may draw
MaxClock == 2        \* last clock reading
MaxRequests == 3     \* requests accepted by the server in one run

Threads == {"t1", "t2"}

TitleTexts == {<<>>, <<"a">>, <<"b">>}
ContentTexts == {<<>>, <<"c">>}

VARIABLES
    notes,      \* NoteRepository.notes: the dict, entries in insertion order
    clock,      \* the last reading datetime.utcnow() returned
    issued,     \* the ids generate_note_id has returned so far
    deleted,    \* the ids for which delete_note has returned True
    accepted,   \* number of requests accepted so far
    pc,         \* per thread: position in the handler / repository method
    req,        \* per thread: the request being served
    note,       \* per thread: the repository method's local `note`
    ret,        \* per thread: the value the repository method returned
    resp        \* per thread: the response sent for the last request

vars == <<notes, clock, issued, deleted, accepted, pc, req, note, ret, resp>>

\* ------------------------------------------------------- Optional values
None == {}
Some(x) == {x}
Value(o) == CHOOSE x \in o : TRUE

\* ------------------------------------------------------------- models.py
generate_note_id(n) == "u" \o ToString(n)

Note(id, title, content, created_at, updated_at) ==
    [id |-> id, title |-> title, content |-> content,
     created_at |-> created_at, updated_at |-> updated_at]

\* NoteCreate: title required with min_length=1, content required
NoteCreate(body) ==
    /\ body.title # None
    /\ Len(Value(body.title)) >= 1
    /\ body.content # None

\* NoteUpdate whose title field has lost min_length=1
NoteUpdate_no_min_length(body) == TRUE

\* NoteUpdate: title optional with min_length=1, content optional
NoteUpdate(body) ==
    body.title # None => Len(Value(body.title)) >= 1

\* ---------------------------------------------------------------- dict
dict_keys(d) == {d[i].key : i \in DOMAIN d}

dict_get(d, k) == {d[i].value : i \in {j \in DOMAIN d : d[j].key = k}}

\* a store that adds an entry even when the key is present
dict_set_append(d, k, v) == Append(d, [key |-> k, value |-> v])

dict_set(d, k, v) ==
    IF k \in dict_keys(d)
    THEN [i \in DOMAIN d |-> IF d[i].key = k THEN [key |-> k, value |-> v] ELSE d[i]]
    ELSE Append(d, [key |-> k, value |-> v])

\* a pop that looks the key up and leaves the entry in place
dict_pop_keep(d, k) == d

dict_pop(d, k) == SelectSeq(d, LAMBDA e : e.key # k)

dict_values(d) == [i \in DOMAIN d |-> d[i].value]

\* --------------------------------------------------------- repository.py
get_note(d, note_id) == dict_get(d, note_id)

list_notes(d) == dict_values(d)

\* the copy with "created_at" refreshed in place of "updated_at"
copy_update_created_at(n, note_update, now) ==
    [n EXCEPT !.title = IF note_update.title # None
                        THEN Value(note_update.title) ELSE n.title,
              !.content = IF note_update.content # None
                          THEN Value(note_update.content) ELSE n.content,
              !.created_at = now]

\* the copy with the fields tested for truth (`if note_update.content`)
\* in place of `is not None`
copy_update_truthy(n, note_update, now) ==
    [n EXCEPT !.title = IF note_update.title # None /\ Value(note_update.title) # <<>>
                        THEN Value(note_update.title) ELSE n.title,
              !.content = IF note_update.content # None /\ Value(note_update.content) # <<>>
                          THEN Value(note_update.content) ELSE n.content,
              !.updated_at = now]

\* note.copy(update={...}) of update_note
copy_update(n, note_update, now) ==
    [n EXCEPT !.title = IF note_update.title # None
                        THEN Value(note_update.title) ELSE n.title,
              !.content = IF note_update.content # None
                          THEN Value(note_update.content) ELSE n.content,
              !.updated_at = now]

\* ---------------------------------------------------------------- requests
NoBody == [title |-> None, content |-> None]

PathIds == {generate_note_id(n) : n \in 1..MaxIds} \cup {"does-not-exist"}

OptTitles == {None} \cup {Some(s) : s \in TitleTexts}
OptContents == {None} \cup {Some(s) : s \in ContentTexts}

Requests ==
    {[method |-> "POST", note_id |-> "", body |-> [title |-> ti, content |-> co]] :
        ti \in OptTitles, co \in OptContents}
    \cup {[method |-> "LIST", note_id |-> "", body |-> NoBody]}
    \cup {[method |-> m, note_id |-> i, body |-> NoBody] :
        m \in {"GET", "DELETE"}, i \in PathIds}
    \cup {[method |-> "PUT", note_id |-> i, body |-> [title |-> ti, content |-> co]] :
        i \in PathIds, ti \in OptTitles, co \in OptContents}

NoReq == [method |-> "NONE", note_id |-> "", body |-> NoBody]
NoResp == [status |-> 0, detail |-> ""]
Unprocessable == [status |-> 422, detail |-> ""]

Idle(t) == pc[t] = "idle"

\* ------------------------------------------------------------------ Init
Init ==
    /\ notes = <<>>
    /\ clock = 0
    /\ issued = {}
    /\ deleted = {}
    /\ accepted = 0
    /\ pc = [t \in Threads |-> "idle"]
    /\ req = [t \in Threads |-> NoReq]
    /\ note = [t \in Threads |-> None]
    /\ ret = [t \in Threads |-> None]
    /\ resp = [t \in Threads |-> NoResp]

\* --------------------------------------------------------------- main.py
\* The server accepts a request and hands it to a worker thread.
Accept(t, r) ==
    /\ Idle(t)
    /\ accepted < MaxRequests
    /\ r.method = "POST" =>
          Cardinality(issued)
            + Cardinality({u \in Threads : pc[u] = "create_note"}) < MaxIds
    /\ accepted' = accepted + 1
    /\ req' = [req EXCEPT ![t] = r]
    /\ resp' = [resp EXCEPT ![t] = NoResp]
    /\ note' = [note EXCEPT ![t] = None]
    /\ ret' = [ret EXCEPT ![t] = None]
    /\ pc' = [pc EXCEPT ![t] = "validate"]
    /\ UNCHANGED <<notes, clock, issued, deleted>>

Receive(t) == \E r \in Requests : Accept(t, r)

\* As Receive, but only while no other request is being served.
ReceiveSeq(t) ==
    /\ \A u \in Threads : Idle(u)
    /\ Receive(t)

Entry(method) ==
    CASE method = "POST" -> "create_note"
      [] method = "LIST" -> "list_notes"
      [] method = "GET" -> "get_note"
      [] method = "PUT" -> "update_note"
      [] method = "DELETE" -> "delete_note"

Valid(r) ==
    CASE r.method = "POST" -> NoteCreate(r.body)
      [] r.method = "PUT" -> NoteUpdate(r.body)
      [] OTHER -> TRUE

\* The request body is parsed into the handler's model before the handler
\* runs; a body the model rejects is answered 422.
Validate(t) ==
    /\ pc[t] = "validate"
    /\ IF Valid(req[t])
       THEN /\ pc' = [pc EXCEPT ![t] = Entry(req[t].method)]
            /\ UNCHANGED <<req, resp>>
       ELSE /\ pc' = [pc EXCEPT ![t] = "idle"]
            /\ req' = [req EXCEPT ![t] = NoReq]
            /\ resp' = [resp EXCEPT ![t] = Unprocessable]
    /\ UNCHANGED <<notes, clock, issued, deleted, accepted, note, ret>>

\* --------------------------------------------------------- repository.py
\* create_note, lines 15-23: read the clock, draw an id, build the Note
RepoCreateNote(t) ==
    /\ pc[t] = "create_note"
    /\ \E now \in clock..(clock + 1), n \in 1..MaxIds :
          /\ now <= MaxClock
          /\ generate_note_id(n) \notin issued
          /\ clock' = now
          /\ issued' = issued \cup {generate_note_id(n)}
          /\ note' = [note EXCEPT ![t] =
                Some(Note(generate_note_id(n), Value(req[t].body.title),
                          Value(req[t].body.content), now, now))]
    /\ pc' = [pc EXCEPT ![t] = "create_note_store"]
    /\ UNCHANGED <<notes, deleted, accepted, req, ret, resp>>

\* create_note that returns the note without storing it
RepoCreateNoteStore_unsaved(t) ==
    /\ pc[t] = "create_note_store"
    /\ ret' = [ret EXCEPT ![t] = note[t]]
    /\ pc' = [pc EXCEPT ![t] = "respond"]
    /\ UNCHANGED <<notes, clock, issued, deleted, accepted, req, note, resp>>

\* create_note, lines 24-25: self.notes[note_id] = note; return note
RepoCreateNoteStore(t) ==
    /\ pc[t] = "create_note_store"
    /\ notes' = dict_set(notes, Value(note[t]).id, Value(note[t]))
    /\ ret' = [ret EXCEPT ![t] = note[t]]
    /\ pc' = [pc EXCEPT ![t] = "respond"]
    /\ UNCHANGED <<clock, issued, deleted, accepted, req, note, resp>>

\* get_note, line 30
RepoGetNote(t) ==
    /\ pc[t] = "get_note"
    /\ ret' = [ret EXCEPT ![t] = get_note(notes, req[t].note_id)]
    /\ pc' = [pc EXCEPT ![t] = "respond"]
    /\ UNCHANGED <<notes, clock, issued, deleted, accepted, req, note, resp>>

\* update_note, lines 35-37: note = self.notes.get(note_id); None returns
RepoUpdateNote(t) ==
    /\ pc[t] = "update_note"
    /\ note' = [note EXCEPT ![t] = dict_get(notes, req[t].note_id)]
    /\ IF dict_get(notes, req[t].note_id) = None
       THEN /\ ret' = [ret EXCEPT ![t] = None]
            /\ pc' = [pc EXCEPT ![t] = "respond"]
       ELSE /\ pc' = [pc EXCEPT ![t] = "update_note_copy"]
            /\ UNCHANGED ret
    /\ UNCHANGED <<notes, clock, issued, deleted, accepted, req, resp>>

\* update_note, lines 38-42: updated = note.copy(update=...), reads the clock
RepoUpdateNoteCopy(t) ==
    /\ pc[t] = "update_note_copy"
    /\ \E now \in clock..(clock + 1) :
          /\ now <= MaxClock
          /\ clock' = now
          /\ ret' = [ret EXCEPT ![t] = Some(copy_update(Value(note[t]), req[t].body, now))]
    /\ pc' = [pc EXCEPT ![t] = "update_note_store"]
    /\ UNCHANGED <<notes, issued, deleted, accepted, req, note, resp>>

\* update_note, lines 43-44: self.notes[note_id] = updated; return updated
RepoUpdateNoteStore(t) ==
    /\ pc[t] = "update_note_store"
    /\ notes' = dict_set(notes, req[t].note_id, Value(ret[t]))
    /\ pc' = [pc EXCEPT ![t] = "respond"]
    /\ UNCHANGED <<clock, issued, deleted, accepted, req, note, ret, resp>>

\* delete_note with the test inverted (`is None`)
RepoDeleteNote_is_none(t) ==
    /\ pc[t] = "delete_note"
    /\ notes' = dict_pop(notes, req[t].note_id)
    /\ ret' = [ret EXCEPT ![t] = dict_get(notes, req[t].note_id) = None]
    /\ deleted' = IF dict_get(notes, req[t].note_id) = None
                  THEN deleted \cup {req[t].note_id} ELSE deleted
    /\ pc' = [pc EXCEPT ![t] = "respond"]
    /\ UNCHANGED <<clock, issued, accepted, req, note, resp>>

\* delete_note, line 49: self.notes.pop(note_id, None) is not None
RepoDeleteNote(t) ==
    /\ pc[t] = "delete_note"
    /\ notes' = dict_pop(notes, req[t].note_id)
    /\ ret' = [ret EXCEPT ![t] = dict_get(notes, req[t].note_id) # None]
    /\ deleted' = IF dict_get(notes, req[t].note_id) # None
                  THEN deleted \cup {req[t].note_id} ELSE deleted
    /\ pc' = [pc EXCEPT ![t] = "respond"]
    /\ UNCHANGED <<clock, issued, accepted, req, note, resp>>

\* list_notes, line 54
RepoListNotes(t) ==
    /\ pc[t] = "list_notes"
    /\ ret' = [ret EXCEPT ![t] = list_notes(notes)]
    /\ pc' = [pc EXCEPT ![t] = "respond"]
    /\ UNCHANGED <<notes, clock, issued, deleted, accepted, req, note, resp>>

\* --------------------------------------------------------------- main.py
NotFound == [status |-> 404, detail |-> "Note not found"]

\* handlers of which delete_note no longer tests `deleted`
Response_delete_unchecked(method, r) ==
    CASE method = "POST" -> [status |-> 201, detail |-> ""]
      [] method = "LIST" -> [status |-> 200, detail |-> ""]
      [] method \in {"GET", "PUT"} ->
            IF r = None THEN NotFound ELSE [status |-> 200, detail |-> ""]
      [] method = "DELETE" -> [status |-> 204, detail |-> ""]

\* The status and detail each handler answers with, given the value the
\* repository returned; a 200 or 201 carries that value as its body.
Response(method, r) ==
    CASE method = "POST" -> [status |-> 201, detail |-> ""]
      [] method = "LIST" -> [status |-> 200, detail |-> ""]
      [] method \in {"GET", "PUT"} ->
            IF r = None THEN NotFound ELSE [status |-> 200, detail |-> ""]
      [] method = "DELETE" ->
            IF ~r THEN NotFound ELSE [status |-> 204, detail |-> ""]

\* The handler returns; the thread goes back to the pool.
Respond(t) ==
    /\ pc[t] = "respond"
    /\ resp' = [resp EXCEPT ![t] = Response(req[t].method, ret[t])]
    /\ pc' = [pc EXCEPT ![t] = "idle"]
    /\ req' = [req EXCEPT ![t] = NoReq]
    /\ note' = [note EXCEPT ![t] = None]
    /\ ret' = [ret EXCEPT ![t] = None]
    /\ UNCHANGED <<notes, clock, issued, deleted, accepted>>

\* ------------------------------------------------------------------ Next
Step(t) ==
    \/ Validate(t)
    \/ RepoCreateNote(t)
    \/ RepoCreateNoteStore(t)
    \/ RepoGetNote(t)
    \/ RepoUpdateNote(t)
    \/ RepoUpdateNoteCopy(t)
    \/ RepoUpdateNoteStore(t)
    \/ RepoDeleteNote(t)
    \/ RepoListNotes(t)
    \/ Respond(t)

Next == \E t \in Threads : Receive(t) \/ Step(t)

Spec == Init /\ [][Next]_vars

\* one request at a time
NextSeq == \E t \in Threads : ReceiveSeq(t) \/ Step(t)

SpecSeq == Init /\ [][NextSeq]_vars


\* ---------------------------------------------------------------- steps
\* thread t leaves position p in this step
Leaves(t, p) == pc[t] = p /\ pc'[t] # p

Stored(d) == {d[i].value : i \in DOMAIN d}

UpdateReturned(t) ==
    /\ pc[t] = "respond"
    /\ req[t].method = "PUT"
    /\ ret[t] # None

\* ==================================================================== C1
\* C1: two concurrent update_note calls on the same existing id, one setting
\* only the title and the other only the content, both returning a Note,
\* leave a stored note that carries both the new title and the new content.
C1_NoLostUpdate ==
    \A t \in Threads, u \in Threads :
        ( /\ t # u
          /\ UpdateReturned(t)
          /\ UpdateReturned(u)
          /\ req[t].note_id = req[u].note_id
          /\ req[t].body.title # None /\ req[t].body.content = None
          /\ req[u].body.title = None /\ req[u].body.content # None
          /\ get_note(notes, req[t].note_id) \in {ret[t], ret[u]} )
        => /\ Value(get_note(notes, req[t].note_id)).title = Value(req[t].body.title)
           /\ Value(get_note(notes, req[t].note_id)).content = Value(req[u].body.content)

\* ==================================================================== C2
\* C2: once delete_note(id) has returned True and a racing update_note(id)
\* has returned a Note, the store holds no entry for id.
C2_NoReinsertAfterDelete ==
    \A d \in Threads, u \in Threads :
        ( /\ d # u
          /\ pc[d] = "respond"
          /\ req[d].method = "DELETE"
          /\ ret[d]
          /\ UpdateReturned(u)
          /\ req[u].note_id = req[d].note_id )
        => get_note(notes, req[d].note_id) = None

\* ==================================================================== C3
\* C3: every stored note has created_at <= updated_at, and the note an
\* update_note call builds has updated_at >= the updated_at of the note the
\* call found.
C3_Timestamps ==
    /\ \A n \in Stored(notes) : n.created_at <= n.updated_at
    /\ \A t \in Threads :
          (pc[t] = "update_note_store" \/ UpdateReturned(t))
          => Value(ret[t]).updated_at >= Value(note[t]).updated_at

C3_Witness ==
    \E t \in Threads :
        /\ UpdateReturned(t)
        /\ Value(ret[t]).updated_at > Value(note[t]).updated_at
        /\ get_note(notes, req[t].note_id) = ret[t]
        /\ Value(ret[t]).created_at < Value(ret[t]).updated_at

\* ==================================================================== C4
\* C4: create_note returns a Note with a non-empty id, created_at equal to
\* updated_at and the given title and content, and get_note with that id
\* right after the call returns an equal Note.
C4_CreateThenGet ==
    [][\A t \in Threads :
          Leaves(t, "create_note_store") =>
              /\ ret'[t] # None
              /\ Value(ret'[t]).id # ""
              /\ Value(ret'[t]).created_at = Value(ret'[t]).updated_at
              /\ Value(ret'[t]).title = Value(req[t].body.title)
              /\ Value(ret'[t]).content = Value(req[t].body.content)
              /\ get_note(notes', Value(ret'[t]).id) = ret'[t]]_vars

C4_Witness ==
    \E t \in Threads :
        /\ pc[t] = "respond"
        /\ req[t].method = "POST"
        /\ get_note(notes, Value(ret[t]).id) = ret[t]
        /\ Value(ret[t]).content = <<>>
        /\ Len(notes) = 2

\* ==================================================================== C5
\* C5: with one request served at a time, update_note on an existing id
\* replaces the stored note by one whose set fields take the new values and
\* whose unset fields, id and created_at are those of the note stored
\* before; updated_at is the clock reading of the call; the returned Note is
\* the note now stored.
C5_UpdateFields ==
    [][\A t \in Threads :
          /\ Leaves(t, "update_note_copy") => Value(ret'[t]).updated_at = clock'
          /\ Leaves(t, "update_note_store") =>
              LET prior == Value(get_note(notes, req[t].note_id))
                  new == Value(get_note(notes', req[t].note_id))
                  body == req[t].body
              IN /\ get_note(notes, req[t].note_id) # None
                 /\ get_note(notes', req[t].note_id) = ret'[t]
                 /\ new.title = IF body.title = None THEN prior.title
                                ELSE Value(body.title)
                 /\ new.content = IF body.content = None THEN prior.content
                                  ELSE Value(body.content)
                 /\ new.id = prior.id
                 /\ new.created_at = prior.created_at
                 /\ dict_keys(notes') = dict_keys(notes)]_vars

\* an update that sets the content to the empty string, and one that sets
\* nothing and still moves updated_at
C5_Witness ==
    \E t \in Threads :
        /\ UpdateReturned(t)
        /\ get_note(notes, req[t].note_id) = ret[t]
        /\ \/ /\ req[t].body = [title |-> None, content |-> Some(<<>>)]
              /\ Value(note[t]).content = <<"c">>
              /\ Value(ret[t]).content = <<>>
           \/ /\ req[t].body = NoBody
              /\ Value(ret[t]).updated_at > Value(note[t]).updated_at

\* ==================================================================== C6
\* C6: with one request served at a time, delete_note(id) returns True
\* exactly on the first delete of a created id, False on every later delete
\* of it and on an id never created; after a True the note is not
\* retrievable by get_note.
C6_DeleteOnce ==
    [][\A t \in Threads :
          /\ Leaves(t, "delete_note") =>
              /\ ret'[t] = (req[t].note_id \in issued /\ req[t].note_id \notin deleted)
              /\ get_note(notes', req[t].note_id) = None
          /\ (Leaves(t, "get_note") /\ req[t].note_id \in deleted) =>
              ret'[t] = None]_vars

\* a second delete of a deleted id has returned False
C6_Witness ==
    \E t \in Threads :
        /\ pc[t] = "respond"
        /\ req[t].method = "DELETE"
        /\ req[t].note_id \in deleted
        /\ ~ret[t]

\* ==================================================================== C7
\* C7: with one request served at a time, list_notes returns exactly one
\* note per id created and not deleted, so its length is the number of
\* notes created minus the number of deletes that returned True.
C7_ListExact ==
    [][\A t \in Threads :
          Leaves(t, "list_notes") =>
              /\ {ret'[t][i].id : i \in DOMAIN ret'[t]} = issued \ deleted
              /\ Len(ret'[t]) = Cardinality(issued) - Cardinality(deleted)
              /\ \A i \in DOMAIN ret'[t] :
                    get_note(notes, ret'[t][i].id) = Some(ret'[t][i])]_vars

C7_Witness ==
    \E t \in Threads :
        /\ pc[t] = "respond"
        /\ req[t].method = "LIST"
        /\ deleted # {}
        /\ Len(ret[t]) = Cardinality(issued) - 1

\* ==================================================================== C8
\* C8: for an id the store has never generated, get_note and update_note
\* return None, delete_note returns False, and the mapping is unchanged; in
\* particular update_note does not create a note.
C8_UnknownId ==
    [][\A t \in Threads :
          (req[t].note_id \notin issued /\
           (Leaves(t, "get_note") \/ Leaves(t, "update_note") \/ Leaves(t, "delete_note")))
          => /\ notes' = notes
             /\ pc'[t] = "respond"
             /\ ret'[t] = IF req[t].method = "DELETE" THEN FALSE ELSE None]_vars

C8_Witness ==
    \E t \in Threads :
        /\ pc[t] = "respond"
        /\ req[t].method = "PUT"
        /\ req[t].note_id \notin issued
        /\ req[t].body.title # None
        /\ ret[t] = None
        /\ notes # <<>>

\* ==================================================================== C9
\* C9: with one request served at a time, GET, PUT and DELETE answer 404
\* "Note not found" exactly when the store has no entry for the id when the
\* handler looks it up, and 200, 200 and 204 otherwise; POST answers 201;
\* after a DELETE of an id was answered 204 every lookup of that id finds
\* nothing, so every later GET, PUT or DELETE of it is answered 404.
C9_NotFound ==
    [][\A t \in Threads :
          /\ Leaves(t, "get_note") =>
                ((ret'[t] = None) <=> req[t].note_id \notin dict_keys(notes))
          /\ Leaves(t, "update_note") =>
                /\ (note'[t] = None) <=> req[t].note_id \notin dict_keys(notes)
                /\ (pc'[t] = "respond") <=> (note'[t] = None)
                /\ pc'[t] = "respond" => ret'[t] = None
          /\ Leaves(t, "update_note_store") => ret'[t] # None
          /\ Leaves(t, "delete_note") =>
                (ret'[t] <=> req[t].note_id \in dict_keys(notes))
          /\ (req[t].note_id \in deleted /\
              (Leaves(t, "get_note") \/ Leaves(t, "update_note")
                 \/ Leaves(t, "delete_note")))
             => req[t].note_id \notin dict_keys(notes)
          /\ Leaves(t, "respond") =>
                resp'[t] =
                  CASE req[t].method = "POST" -> [status |-> 201, detail |-> ""]
                    [] req[t].method = "LIST" -> [status |-> 200, detail |-> ""]
                    [] req[t].method \in {"GET", "PUT"} ->
                          IF ret[t] = None
                          THEN [status |-> 404, detail |-> "Note not found"]
                          ELSE [status |-> 200, detail |-> ""]
                    [] req[t].method = "DELETE" ->
                          IF ret[t] THEN [status |-> 204, detail |-> ""]
                          ELSE [status |-> 404, detail |-> "Note not found"]]_vars

\* a GET of a deleted id is about to be answered 404
C9_Witness ==
    \E t \in Threads :
        /\ pc[t] = "respond"
        /\ req[t].method = "GET"
        /\ req[t].note_id \in deleted
        /\ ret[t] = None

\* =================================================================== C10
\* C10: no stored note ever has an empty title; a create request whose
\* title is missing or empty and an update request with an empty title are
\* answered 422 without a repository method being entered and with the
\* store unchanged.
C10_TitleNeverEmpty ==
    [][/\ \A n \in Stored(notes') : Len(n.title) >= 1
       /\ \A t \in Threads :
             ( /\ Leaves(t, "validate")
               /\ \/ /\ req[t].method = "POST"
                     /\ (req[t].body.title = None \/ req[t].body.title = Some(<<>>))
                  \/ /\ req[t].method = "PUT"
                     /\ req[t].body.title = Some(<<>>) )
             => /\ pc'[t] = "idle"
                /\ resp'[t].status = 422
                /\ notes' = notes]_vars

\* an update with an empty title was rejected while a note is stored, and an
\* update without a title has kept the stored title
C10_Witness ==
    /\ notes # <<>>
    /\ \E t \in Threads : resp[t].status = 422
    /\ \E u \in Threads :
          /\ UpdateReturned(u)
          /\ req[u].body.title = None
          /\ get_note(notes, req[u].note_id) = ret[u]

====
